---------------------------- MODULE Spec2Model ----------------------------
(***************************************************************************)
(* A model of pastas.timeseries.TimeSeries (src/pastas/timeseries.py).     *)
(*                                                                         *)
(* Time is counted in ticks of twelve hours from the epoch, so one day is  *)
(* two ticks and the frequency string "D" is the interval 2, "12H" is the  *)
(* interval 1 and a missing frequency (None) is 0.                         *)
(* A value is a pair <<n, d>>: the exact fraction n/d in lowest terms when *)
(* d > 0, and NaN when d = 0.  A series is a sequence of rows <<t, v>>.    *)
(***************************************************************************)
EXTENDS Integers, Sequences, FiniteSets, TLC

-----------------------------------------------------------------------------
(* Bounds of the model *)

\* number of rows of a raw input series before a defect is applied
MaxLen == 4
\* timestamp of the first grid slot the raw input series are laid on
Start == 4
\* number of update_series calls made after construction
MaxUpdates == 1

-----------------------------------------------------------------------------
(* Values *)

NaN == <<0, 0>>

isnull(v) == v[2] = 0

Abs(x) == IF x < 0 THEN -x ELSE x

RECURSIVE GCD(_, _)
GCD(a, b) == IF b = 0 THEN a ELSE GCD(b, a % b)

\* the fraction n/d (d > 0) in lowest terms
Float(n, d) ==
    LET g == GCD(Abs(n), d)
    IN  IF n < 0 THEN <<-(Abs(n) \div g), d \div g>> ELSE <<n \div g, d \div g>>

Add(a, b) ==
    IF isnull(a) \/ isnull(b) THEN NaN
    ELSE Float(a[1] * b[2] + b[1] * a[2], a[2] * b[2])

subtract(a, b) ==
    IF isnull(a) \/ isnull(b) THEN NaN
    ELSE Float(a[1] * b[2] - b[1] * a[2], a[2] * b[2])

\* a * p / q for integers p and q > 0
Scale(a, p, q) == IF isnull(a) THEN NaN ELSE Float(a[1] * p, a[2] * q)

Less(a, b) == a[1] * b[2] < b[1] * a[2]

-----------------------------------------------------------------------------
(* pandas.Series and pandas.Index operations used by the class *)

index(s) == {s[i][1] : i \in DOMAIN s}

index_min(s) == CHOOSE t \in index(s) : \A u \in index(s) : t <= u

index_max(s) == CHOOSE t \in index(s) : \A u \in index(s) : t >= u

is_unique(s) == \A i, j \in DOMAIN s : s[i][1] = s[j][1] => i = j

hasnans(s) == \E i \in DOMAIN s : isnull(s[i][2])

RECURSIVE SortedIndex(_)
SortedIndex(S) ==
    IF S = {} THEN <<>>
    ELSE LET m == CHOOSE x \in S : \A y \in S : x <= y
         IN  <<m>> \o SortedIndex(S \ {m})

\* put one row behind the rows of a sorted series that are not later than it
InsertRow(sorted, row) ==
    LET k == Cardinality({i \in DOMAIN sorted : sorted[i][1] <= row[1]})
    IN  SubSeq(sorted, 1, k) \o <<row>> \o SubSeq(sorted, k + 1, Len(sorted))

\* Series.sort_index(): rows in ascending timestamp order (numpy sorts short
\* arrays by insertion, which keeps equal timestamps in their order)
RECURSIVE sort_index(_)
sort_index(s) ==
    IF s = <<>> THEN <<>>
    ELSE InsertRow(sort_index(SubSeq(s, 1, Len(s) - 1)), s[Len(s)])

\* the value a series with unique timestamps holds at t, NaN when it has none
ValueAt(s, t) ==
    IF \E i \in DOMAIN s : s[i][1] = t
    THEN s[CHOOSE i \in DOMAIN s : s[i][1] = t][2]
    ELSE NaN

\* Series.reindex(idx): idx is a sequence of timestamps
reindex(s, idx) == [i \in 1..Len(idx) |-> <<idx[i], ValueAt(s, idx[i])>>]

\* pd.date_range(start, end, freq): start, start + dt, ... not beyond end
date_range(start, end, dt) ==
    IF start > end THEN <<>>
    ELSE [i \in 1..((end - start) \div dt + 1) |-> start + (i - 1) * dt]

\* Series.asfreq(freq)
asfreq(s, dt) ==
    IF s = <<>> THEN <<>>
    ELSE reindex(s, date_range(s[1][1], s[Len(s)][1], dt))

\* Series.asfreq(freq, method=...): 'backfill'/'bfill' takes the next row of
\* the series, 'pad'/'ffill' the last one
asfreq_method(s, dt, method) ==
    IF s = <<>> THEN <<>>
    ELSE LET idx == date_range(s[1][1], s[Len(s)][1], dt)
             next(t) == CHOOSE i \in DOMAIN s :
                            /\ s[i][1] >= t
                            /\ \A j \in DOMAIN s : s[j][1] >= t => i <= j
             last(t) == CHOOSE i \in DOMAIN s :
                            /\ s[i][1] <= t
                            /\ \A j \in DOMAIN s : s[j][1] <= t => i >= j
         IN  [i \in 1..Len(idx) |->
                <<idx[i], IF method \in {"backfill", "bfill"}
                          THEN s[next(idx[i])][2]
                          ELSE s[last(idx[i])][2]>>]

dropna(s) == SelectSeq(s, LAMBDA r : ~isnull(r[2]))

RECURSIVE SumValues(_)
SumValues(s) ==
    IF s = <<>> THEN <<0, 1>> ELSE Add(s[1][2], SumValues(Tail(s)))

\* Series.mean(): the mean of the values that are not NaN, NaN without any
mean(s) ==
    LET valid == dropna(s)
    IN  IF valid = <<>> THEN NaN ELSE Scale(SumValues(valid), 1, Len(valid))

\* Series.fillna(value)
fillna(s, v) ==
    [i \in DOMAIN s |-> IF isnull(s[i][2]) THEN <<s[i][1], v>> ELSE s[i]]

\* Series.interpolate(method='time'): linear in time between the nearest
\* valid neighbours; NaN after the last valid row take its value, NaN before
\* the first valid row stay
interpolate(s) ==
    LET before(i) == {j \in DOMAIN s : j < i /\ ~isnull(s[j][2])}
        after(i) == {j \in DOMAIN s : j > i /\ ~isnull(s[j][2])}
        prev(i) == CHOOSE j \in before(i) : \A k \in before(i) : k <= j
        next(i) == CHOOSE j \in after(i) : \A k \in after(i) : j <= k
        line(i, p, q) ==
            Add(s[p][2],
                Scale(subtract(s[q][2], s[p][2]),
                      s[i][1] - s[p][1], s[q][1] - s[p][1]))
    IN  [i \in DOMAIN s |->
            IF ~isnull(s[i][2]) \/ before(i) = {} THEN s[i]
            ELSE IF after(i) = {} THEN <<s[i][1], s[prev(i)][2]>>
            ELSE <<s[i][1], line(i, prev(i), next(i))>>]

\* series.loc[series.first_valid_index():series.last_valid_index()] on a
\* sorted series; a series without any valid row is kept whole
loc_valid(s) ==
    LET valid == dropna(s)
    IN  IF valid = <<>> THEN s
        ELSE SelectSeq(s, LAMBDA r : /\ r[1] >= valid[1][1]
                                      /\ r[1] <= valid[Len(valid)][1])

\* series.groupby(level=0).mean()
groupby_mean(s) ==
    LET idx == SortedIndex(index(s))
    IN  [i \in 1..Len(idx) |->
            <<idx[i], mean(SelectSeq(s, LAMBDA r : r[1] = idx[i]))>>]

\* pd.infer_freq(index) of a sorted index of at least three timestamps: the
\* constant spacing, 0 (None) when there is none or a timestamp repeats
infer_freq(s) ==
    IF /\ is_unique(s)
       /\ \A i \in 2..(Len(s) - 1) : s[i + 1][1] - s[i][1] = s[2][1] - s[1][1]
    THEN s[2][1] - s[1][1]
    ELSE 0

\* Timestamp.normalize(): midnight of the day of t
normalize_day(t) == t - (t % 2)

\* the aggregate of one bucket of series.resample(freq, ...): of the values
\* that are not NaN; without any the sum is 0 and the others are NaN
Aggregate(rows, how) ==
    LET valid == dropna(rows)
        least == CHOOSE i \in DOMAIN valid :
                    \A j \in DOMAIN valid : ~Less(valid[j][2], valid[i][2])
        most == CHOOSE i \in DOMAIN valid :
                    \A j \in DOMAIN valid : ~Less(valid[i][2], valid[j][2])
    IN  CASE how = "sum" -> SumValues(valid)
          [] how = "mean" -> mean(valid)
          [] how = "min" -> IF valid = <<>> THEN NaN ELSE valid[least][2]
          [] how = "max" -> IF valid = <<>> THEN NaN ELSE valid[most][2]

\* series.resample(freq, label='right', closed='right').<how>(): the bucket
\* edges are anchored at midnight of the first day; a bucket is labelled by
\* its right edge and holds the rows in (left edge, right edge]
resample(s, dt, how) ==
    LET first == s[1][1]
        last == s[Len(s)][1]
        foffset == (first - normalize_day(first)) % dt
        loffset == (last - normalize_day(first)) % dt
        fresult == IF foffset > 0 THEN first - foffset ELSE first - dt
        lresult == IF loffset > 0 THEN last + (dt - loffset) ELSE last
        edges == date_range(fresult, lresult, dt)
    IN  [i \in 1..(Len(edges) - 1) |->
            <<edges[i + 1],
              Aggregate(SelectSeq(s, LAMBDA r : /\ r[1] > edges[i]
                                                 /\ r[1] <= edges[i + 1]),
                        how)>>]

-----------------------------------------------------------------------------
(* Settings *)

\* the values a policy setting, tmin or tmax can hold
None == [kind |-> "None", name |-> "", num |-> 0]

Str(x) == [kind |-> "str", name |-> x, num |-> 0]

PyFloat(n) == [kind |-> "float", name |-> "", num |-> n]

PyInt(n) == [kind |-> "int", name |-> "", num |-> n]

Timestamp(t) == [kind |-> "Timestamp", name |-> "", num |-> t]

\* Python's truth value of a policy value
truthy(p) ==
    CASE p.kind = "None" -> FALSE
      [] p.kind = "str" -> p.name # ""
      [] OTHER -> p.num # 0

\* the class attribute _type_settings
_type_settings ==
    [oseries |-> [freq |-> 2, sample_up |-> None, sample_down |-> None,
                  fill_nan |-> Str("drop"), fill_before |-> None,
                  fill_after |-> None],
     prec |-> [freq |-> 2, sample_up |-> Str("mean"),
               sample_down |-> Str("sum"), fill_nan |-> PyFloat(0),
               fill_before |-> Str("mean"), fill_after |-> Str("mean")],
     evap |-> [freq |-> 2, sample_up |-> Str("interpolate"),
               sample_down |-> Str("sum"), fill_nan |-> Str("interpolate"),
               fill_before |-> Str("mean"), fill_after |-> Str("mean")],
     well |-> [freq |-> 2, sample_up |-> Str("bfill"),
               sample_down |-> Str("sum"), fill_nan |-> PyFloat(0),
               fill_before |-> PyFloat(0), fill_after |-> PyFloat(0)],
     waterlevel |-> [freq |-> 2, sample_up |-> Str("mean"),
                     sample_down |-> Str("interpolate"),
                     fill_nan |-> Str("interpolate"),
                     fill_before |-> Str("mean"), fill_after |-> Str("mean")]]

\* the settings dict __init__ starts from
default_settings ==
    [freq |-> 2, sample_up |-> None, sample_down |-> None, fill_nan |-> None,
     fill_before |-> None, fill_after |-> None, tmin |-> None, tmax |-> None,
     norm |-> None]

\* dict.update(kwargs)
dict_update(d, kwargs) ==
    [k \in DOMAIN d \cup DOMAIN kwargs |->
        IF k \in DOMAIN kwargs THEN kwargs[k] ELSE d[k]]

\* a caution (warnings.warn): the option its text names and the value it prints
warn(option, method) == <<[option |-> option, method |-> method]>>

-----------------------------------------------------------------------------
(* pastas.utils *)

\* get_dt(freq): the length of the interval of a frequency string
get_dt(freq) == freq

\* get_time_offset(t, freq): what t lies past the last multiple of freq
get_time_offset(t, freq) == t % get_dt(freq)

-----------------------------------------------------------------------------
(* The methods of TimeSeries.  self is the record of what the methods read   *)
(* of the object: self.settings, self.freq_original, self.series (the        *)
(* validated series) and self.data (the series the object itself holds,      *)
(* TimeSeries being a pandas.Series).  A method that returns a series and    *)
(* may warn gives [s |-> the series, w |-> the cautions it emitted].         *)

sample_up(self, series) ==
    LET method == self.settings.sample_up
        freq == self.settings.freq
        plain == asfreq(series, freq)
    IN  IF method.kind = "str"
           /\ method.name \in {"backfill", "bfill", "pad", "ffill"}
        THEN [s |-> asfreq_method(series, freq, method.name), w |-> <<>>]
        ELSE IF method = Str("mean")
        THEN [s |-> fillna(plain, mean(plain)), w |-> <<>>]
        ELSE IF method = Str("interpolate")
        THEN [s |-> interpolate(plain), w |-> <<>>]
        ELSE IF method.kind = "float"
        THEN [s |-> fillna(plain, <<method.num, 1>>), w |-> <<>>]
        ELSE [s |-> plain, w |-> warn("sample_up", method)]

\* Resampler.dropna() is the dropna() of the bucket means in the pandas
\* release the class was written for
sample_down(self, series) ==
    LET method == self.settings.sample_down
        freq == self.settings.freq
    IN  IF method = Str("mean")
        THEN [s |-> resample(series, freq, "mean"), w |-> <<>>]
        ELSE IF method = Str("drop")
        THEN [s |-> dropna(resample(series, freq, "mean")), w |-> <<>>]
        ELSE IF method = Str("sum")
        THEN [s |-> resample(series, freq, "sum"), w |-> <<>>]
        ELSE IF method = Str("min")
        THEN [s |-> resample(series, freq, "min"), w |-> <<>>]
        ELSE IF method = Str("max")
        THEN [s |-> resample(series, freq, "max"), w |-> <<>>]
        ELSE [s |-> series, w |-> warn("sample_down", method)]

\* fill_nan with "drop" calling dropna() without inplace=True: the rows stay
fill_nan_dropna_copy(self, series) ==
    LET method == self.settings.fill_nan
        freq == self.freq_original
        plain == asfreq(series, freq)
    IN  IF freq # 0
        THEN IF method = Str("drop")
             THEN [s |-> plain, w |-> <<>>]
             ELSE IF method = Str("mean")
             THEN [s |-> fillna(plain, mean(plain)), w |-> <<>>]
             ELSE IF method = Str("interpolate")
             THEN [s |-> interpolate(plain), w |-> <<>>]
             ELSE IF method.kind = "float"
             THEN [s |-> fillna(plain, <<method.num, 1>>), w |-> <<>>]
             ELSE [s |-> plain, w |-> warn("sample_up", method)]
        ELSE [s |-> series, w |-> <<>>]

fill_nan(self, series) ==
    LET method == self.settings.fill_nan
        freq == self.freq_original
        plain == asfreq(series, freq)
    IN  IF freq # 0
        THEN IF method = Str("drop")
             THEN [s |-> dropna(plain), w |-> <<>>]
             ELSE IF method = Str("mean")
             THEN [s |-> fillna(plain, mean(plain)), w |-> <<>>]
             ELSE IF method = Str("interpolate")
             THEN [s |-> interpolate(plain), w |-> <<>>]
             ELSE IF method.kind = "float"
             THEN [s |-> fillna(plain, <<method.num, 1>>), w |-> <<>>]
             ELSE [s |-> plain, w |-> warn("sample_up", method)]
        ELSE [s |-> dropna(series), w |-> <<>>]

change_frequency(self, series) ==
    LET freq == self.settings.freq
        r == IF freq = 0 THEN [s |-> series, w |-> <<>>]
             ELSE IF get_dt(freq) < get_dt(self.freq_original)
             THEN sample_up(self, series)
             ELSE IF get_dt(freq) > get_dt(self.freq_original)
             THEN sample_down(self, series)
             ELSE fill_nan(self, series)
    IN  [s |-> loc_valid(r.s), w |-> r.w]

\* index_extend[:-1] of fill_before: the timestamps it generates
extend_before(self, series) ==
    LET freq == self.settings.freq
        tmin == self.settings.tmin.num
        index_extend ==
            date_range(tmin - get_time_offset(tmin, freq), index_min(series),
                       freq)
    IN  SubSeq(index_extend, 1, Len(index_extend) - 1)

\* fill_before passing only when tmin is later than the first timestamp
before_extends_at_first(self, series) ==
    /\ self.settings.tmin # None
    /\ ~(self.settings.tmin.num > index_min(series))

\* whether fill_before takes its extending branch
before_extends(self, series) ==
    /\ self.settings.tmin # None
    /\ ~(self.settings.tmin.num >= index_min(series))

fill_before(self, series) ==
    LET method == self.settings.fill_before
        ext == extend_before(self, series)
        idx == SortedIndex(index(self.data) \cup {ext[i] : i \in DOMAIN ext})
        new == reindex(series, idx)
    IN  IF ~before_extends(self, series) THEN [s |-> series, w |-> <<>>]
        ELSE IF method = Str("mean")
        THEN [s |-> fillna(new, mean(new)), w |-> <<>>]
        ELSE IF method.kind = "float"
        THEN [s |-> fillna(new, <<method.num, 1>>), w |-> <<>>]
        ELSE [s |-> new, w |-> warn("sample_up", method)]

\* index_extend[:-1] of fill_after
extend_after(self, series) ==
    LET freq == self.settings.freq
        tmax == self.settings.tmax.num
        index_extend ==
            date_range(tmax - get_time_offset(tmax, freq), index_max(series),
                       freq)
    IN  SubSeq(index_extend, 1, Len(index_extend) - 1)

\* whether fill_after takes its extending branch
after_extends(self, series) ==
    /\ self.settings.tmax # None
    /\ ~(self.settings.tmax.num <= index_max(series))

fill_after(self, series) ==
    LET method == self.settings.fill_after
        ext == extend_after(self, series)
        idx == SortedIndex(index(self.data) \cup {ext[i] : i \in DOMAIN ext})
        new == reindex(series, idx)
    IN  IF ~after_extends(self, series) THEN [s |-> series, w |-> <<>>]
        ELSE IF method = Str("mean")
        THEN [s |-> fillna(new, mean(new)), w |-> <<>>]
        ELSE IF method.kind = "float"
        THEN [s |-> fillna(new, <<method.num, 1>>), w |-> <<>>]
        ELSE [s |-> new, w |-> warn("sample_up", method)]

\* normalize subtracting self.mean(), the mean of the series the object holds
normalize_self_mean(self, series) ==
    LET method == self.settings.norm
        m == mean(self.data)
    IN  IF method = None THEN series
        ELSE IF method = Str("mean")
        THEN [i \in DOMAIN series |->
                <<series[i][1], subtract(series[i][2], m)>>]
        ELSE series

normalize(self, series) ==
    LET method == self.settings.norm
        m == mean(series)
    IN  IF method = None THEN series
        ELSE IF method = Str("mean")
        THEN [i \in DOMAIN series |->
                <<series[i][1], subtract(series[i][2], m)>>]
        ELSE series

\* The result of a call: the object after it, whether it ended in an
\* exception, its cautions, and the series after each step (stage.self is the
\* series the object held when the call began).
Raised(me) ==
    [self |-> me, raised |-> TRUE, w |-> <<>>,
     stage |-> [self |-> me.data, freq |-> <<>>, before |-> <<>>,
                after |-> <<>>]]

\* update_series from normalize on: a is what fill_after returned
update_normalize(me, f, b, a) ==
    [self |-> [me EXCEPT !.data = normalize(me, a.s)], raised |-> FALSE,
     w |-> f.w \o b.w \o a.w,
     stage |-> [self |-> me.data, freq |-> f.s, before |-> b.s,
                after |-> a.s]]

\* update_series from fill_after on: b is what fill_before returned.  The
\* bounds of a series without rows and an extension without a frequency end
\* in an exception.
update_fill_after(me, f, b) ==
    IF me.settings.tmax # None /\ b.s = <<>> THEN Raised(me)
    ELSE IF after_extends(me, b.s) /\ me.settings.freq = 0 THEN Raised(me)
    ELSE update_normalize(me, f, b, fill_after(me, b.s))

\* update_series from fill_before on: f is what change_frequency returned
update_fill_before(me, f) ==
    IF me.settings.tmin # None /\ f.s = <<>> THEN Raised(me)
    ELSE IF before_extends(me, f.s) /\ me.settings.freq = 0 THEN Raised(me)
    ELSE update_fill_after(me, f, fill_before(me, f.s))

\* update_series(**kwargs).  The settings are updated first; get_dt of a
\* missing original frequency ends in an exception; self.data is replaced
\* only at the end (_update_inplace), so every step reads the series the
\* object held when the call began.
update_series(self, kwargs) ==
    LET me == [self EXCEPT !.settings = dict_update(self.settings, kwargs)]
    IN  IF DOMAIN kwargs = {}
        THEN [Raised(self) EXCEPT !.raised = FALSE]
        ELSE IF me.settings.freq # 0 /\ me.freq_original = 0 THEN Raised(me)
        ELSE update_fill_before(me, change_frequency(me, me.series))

\* validate_series from the duplicate indices on: filled is what the step
\* for the nan-values left
validate_duplicates(me, w, filled) ==
    [self |-> [me EXCEPT !.series = IF is_unique(filled.s) THEN filled.s
                                    ELSE groupby_mean(filled.s)],
     raised |-> FALSE, w |-> w \o filled.w]

\* validate_series from the frequency on: freq is what infer_freq returned.
\* asfreq of an index with a repeated timestamp ends in an exception.
validate_frequency(self, trimmed, freq) ==
    LET st == self.settings
        me == [self EXCEPT
                 !.freq_original = IF freq # 0 THEN freq ELSE st.freq,
                 !.settings = IF freq # 0 /\ st.freq = 0
                              THEN [st EXCEPT !.freq = freq] ELSE st]
        w == IF freq = 0 /\ truthy(st.fill_nan) /\ st.fill_nan # Str("drop")
             THEN warn("freq", st.fill_nan) ELSE <<>>
    IN  IF hasnans(trimmed) /\ me.freq_original # 0 /\ ~is_unique(trimmed)
        THEN [self |-> me, raised |-> TRUE, w |-> w]
        ELSE validate_duplicates(me, w,
                IF hasnans(trimmed) THEN fill_nan(me, trimmed)
                ELSE [s |-> trimmed, w |-> <<>>])

\* validate_series from infer_freq on: trimmed is the sorted series without
\* its leading and trailing nan-values.  infer_freq of fewer than three
\* timestamps ends in an exception.
validate_trimmed(self, trimmed) ==
    IF Len(trimmed) < 3 THEN [self |-> self, raised |-> TRUE, w |-> <<>>]
    ELSE validate_frequency(self, trimmed, infer_freq(trimmed))

\* validate_series(series): the object with the validated series, the
\* original frequency and the frequency setting it adopts; the cautions
validate_series(self, raw) == validate_trimmed(self, loc_valid(sort_index(raw)))

\* the object as __init__ has it before it validates the series: empty, with
\* the settings of the type overridden by the user's
new_object(ty, user) ==
    [settings |->
        dict_update(IF ty \in DOMAIN _type_settings
                    THEN dict_update(default_settings, _type_settings[ty])
                    ELSE default_settings,
                    user),
     freq_original |-> 0, series |-> <<>>, data |-> <<>>]

\* the end of __init__: u is what update_series(**self.settings) returned
\* after the validation v
construct_updated(v, u) ==
    [self |-> u.self, raised |-> u.raised, w |-> v.w \o u.w,
     stage |-> u.stage]

\* __init__ from update_series on: v is what validate_series returned
construct_validated(v) ==
    IF v.raised THEN Raised(v.self)
    ELSE construct_updated(v, update_series(v.self, v.self.settings))

\* __init__(series, type=ty, settings=user)
construct(raw, ty, user) ==
    construct_validated(validate_series(new_object(ty, user), raw))

-----------------------------------------------------------------------------
(* Inputs *)

\* a gap-free raw series of MaxLen rows at a constant spacing
Regular(start, d) ==
    [i \in 1..MaxLen |-> <<start + (i - 1) * d, <<i * i, 1>>>>]

\* the same with its second observation missing (a NaN row)
WithGap(s) == [s EXCEPT ![2] = <<s[2][1], NaN>>]

\* the same without its second row: no constant spacing is left
WithoutRow(s) == <<s[1]>> \o SubSeq(s, 3, Len(s))

\* the same with its first two rows out of order
OutOfOrder(s) == <<s[2], s[1]>> \o SubSeq(s, 3, Len(s))

\* the same with a second observation at the timestamp of its second row
WithDuplicate(s) == Append(s, <<s[2][1], <<0, 1>>>>)

\* the same with its first observation missing
WithLeadingGap(s) == [s EXCEPT ![1] = <<s[1][1], NaN>>]

RawInputs ==
    {Regular(Start, 1), Regular(Start, 2), Regular(Start + 1, 2),
     WithGap(Regular(Start, 1)), WithGap(Regular(Start, 2)),
     WithoutRow(Regular(Start, 1)), OutOfOrder(Regular(Start, 2)),
     WithDuplicate(Regular(Start, 2)), WithLeadingGap(Regular(Start, 2))}

Types == DOMAIN _type_settings \cup {"None"}

\* two tmin before every raw series, one on each phase of the daily grid, and
\* one inside all of them
TMin == {Timestamp(Start - 4), Timestamp(Start - 3), Timestamp(Start + 1)}

\* a tmax inside every raw series and one after all of them
TMax == {Timestamp(Start + 2), Timestamp(Start + 2 * MaxLen + 1)}

\* the keyword arguments of an update_series call
Kwargs ==
    {[freq |-> f] : f \in {0, 1}}
    \cup {[tmin |-> t] : t \in TMin}
    \cup {[tmax |-> t] : t \in TMax}
    \cup {[norm |-> p] : p \in {Str("mean"), Str("median")}}
    \cup {[fill_nan |-> p] : p \in {Str("interpolate"), PyInt(5)}}
    \cup {[sample_down |-> Str("median")], [fill_before |-> PyFloat(5)]}

\* the settings a caller passes to the constructor
UserSettings ==
    Kwargs
    \cup {[sample_down |-> p] :
            p \in {Str("mean"), Str("drop"), Str("min"), Str("max")}}
    \cup {[sample_up |-> p] : p \in {Str("ffill"), PyFloat(5)}}
    \cup {[fill_nan |-> p] : p \in {Str("mean"), PyFloat(5)}}
    \cup {[fill_after |-> Str("ffill")]}

\* the constructor calls: every type with its own settings, and one type with
\* each of the settings a caller passes
Constructions ==
    {<<ty, [norm |-> None]>> : ty \in Types}
    \cup {<<"evap", user>> : user \in UserSettings}

-----------------------------------------------------------------------------
(* State *)

VARIABLES
    phase,            \* "new" before the object is constructed, then "ready"
    series_original,  \* self.series_original
    type,             \* self.type
    settings,         \* self.settings
    freq_original,    \* self.freq_original
    series,           \* self.series: the validated series
    data,             \* the series the object itself holds: the derived series
    stage,            \* the series after each step of the last completed run
    warnings,         \* the cautions of the last constructor or update call
    raised,           \* whether the last update_series call ended in an exception
    repeated,         \* the last call repeated a completed call, same settings
    nupdates,         \* calls of update_series that changed a setting
    clone             \* the object last built from export(), if any

vars == <<phase, series_original, type, settings, freq_original, series, data,
          stage, warnings, raised, repeated, nupdates, clone>>

\* the object as the methods read it
Self ==
    [settings |-> settings, freq_original |-> freq_original,
     series |-> series, data |-> data]

NoStage == [self |-> <<>>, freq |-> <<>>, before |-> <<>>, after |-> <<>>]

NoClone ==
    [exists |-> FALSE, raised |-> FALSE, series_original |-> <<>>,
     settings |-> default_settings, data |-> <<>>]

Init ==
    /\ phase = "new"
    /\ series_original = <<>>
    /\ type = "None"
    /\ settings = default_settings
    /\ freq_original = 0
    /\ series = <<>>
    /\ data = <<>>
    /\ stage = NoStage
    /\ warnings = <<>>
    /\ raised = FALSE
    /\ repeated = FALSE
    /\ nupdates = 0
    /\ clone = NoClone

\* TimeSeries(raw, type=ty, settings=user): series_original is a copy of the
\* series as it is passed in; a constructor that ends in an exception leaves
\* no object
Construct(raw, ty, user) ==
    /\ phase = "new"
    /\ \E obj \in {construct(raw, ty, user)} :
          /\ ~obj.raised
          /\ series_original' = raw
          /\ type' = ty
          /\ settings' = obj.self.settings
          /\ freq_original' = obj.self.freq_original
          /\ series' = obj.self.series
          /\ data' = obj.self.data
          /\ stage' = obj.stage
          /\ warnings' = obj.w
    /\ phase' = "ready"
    /\ raised' = FALSE
    /\ UNCHANGED <<repeated, nupdates, clone>>

\* what a call update_series(**kwargs) does to the object
Call(kwargs) ==
    /\ phase = "ready"
    /\ \E u \in {update_series(Self, kwargs)} :
          /\ settings' = u.self.settings
          /\ data' = u.self.data
          /\ raised' = u.raised
          /\ warnings' = u.w
          /\ stage' = IF u.raised THEN stage ELSE u.stage
    /\ clone' = NoClone
    /\ UNCHANGED <<phase, series_original, type, freq_original, series>>

\* update_series(**kwargs) with a new value for a setting
Update(kwargs) ==
    /\ nupdates < MaxUpdates
    /\ Call(kwargs)
    /\ repeated' = FALSE
    /\ nupdates' = nupdates + 1

\* update_series(**self.settings): the same call again, settings unchanged
Rerun ==
    /\ Call(settings)
    /\ repeated' = ~raised
    /\ UNCHANGED nupdates

\* d = self.export(); TimeSeries(d["series"], type=d["type"],
\* settings=d["settings"]).  d["series"] is self.series_original itself, and
\* validate_series sorts the series it is given in place.
Reconstruct ==
    /\ phase = "ready"
    /\ ~clone.exists
    /\ series_original' = sort_index(series_original)
    /\ \E obj \in {construct(series_original, type, settings)} :
          clone' = [exists |-> TRUE, raised |-> obj.raised,
                    series_original |-> series_original,
                    settings |-> obj.self.settings, data |-> obj.self.data]
    /\ UNCHANGED <<phase, type, settings, freq_original, series, data, stage,
                   warnings, raised, repeated, nupdates>>

Next ==
    \/ \E raw \in RawInputs, c \in Constructions : Construct(raw, c[1], c[2])
    \/ \E kwargs \in Kwargs : Update(kwargs)
    \/ Rerun
    \/ Reconstruct

Spec == Init /\ [][Next]_vars

-----------------------------------------------------------------------------
(* Properties *)

\* the object holds the result of a completed run under its settings
Ready == phase = "ready" /\ ~raised

\* consecutive timestamps are exactly dt apart
Grid(s, dt) == \A i \in 1..(Len(s) - 1) : s[i + 1][1] - s[i][1] = dt

\* a fill_before / fill_after policy the code knows
Supported(p) == p = Str("mean") \/ p.kind = "float"

\* a caution of the last call prints the policy value p
Named(p) == \E i \in DOMAIN warnings : warnings[i].method = p

\* new has the timestamps of old and those of ext and no others, and keeps
\* every observation of old
Preserved(old, new, ext) ==
    /\ index(new) = index(old) \cup {ext[i] : i \in DOMAIN ext}
    /\ \A i \in DOMAIN old :
          ~isnull(old[i][2]) => ValueAt(new, old[i][1]) = old[i][2]

\* C1: a processor built from export() holds the derived series of the
\* processor that exported it.
C1_Rederivable ==
    clone.exists /\ ~raised => ~clone.raised /\ clone.data = data

\* C2: a second update_series call in succession with the same settings
\* leaves the derived series as the first call left it.
C2_Idempotent == phase = "ready" /\ repeated /\ ~raised => data = stage.self

\* C2 witness: the repeated call ran a window extension over observations
C2_Witness ==
    /\ phase = "ready" /\ repeated /\ ~raised
    /\ before_extends(Self, stage.freq)
    /\ dropna(data) # <<>>

\* C3: no step changes the stored raw series of a constructed processor.
C3_RawNeverChanged ==
    [][phase = "ready" => series_original' = series_original]_vars

\* every policy is one the code knows and none of them drops rows
PoliciesFill ==
    /\ \/ settings.sample_up.kind = "float"
       \/ settings.sample_up \in {Str("backfill"), Str("bfill"), Str("pad"),
                                  Str("ffill"), Str("mean"), Str("interpolate")}
    /\ settings.sample_down \in {Str("mean"), Str("sum"), Str("min"), Str("max")}
    /\ \/ settings.fill_nan.kind = "float"
       \/ settings.fill_nan \in {Str("mean"), Str("interpolate")}
    /\ Supported(settings.fill_before)
    /\ Supported(settings.fill_after)

\* C4: after construction and after every update_series call the derived
\* series' consecutive timestamps are exactly one freq interval apart.  The
\* claim is for every combination of settings; it is stated here for those
\* whose policies all fill, where no step is skipped and no row dropped.
C4_GridInvariant ==
    Ready /\ settings.freq # 0 /\ PoliciesFill
    => Grid(data, get_dt(settings.freq))

\* C5: a tmax later than the last timestamp (supported fill_after) extends
\* the series past it with points at freq spacing, the last of them within
\* one freq interval of tmax.
C5_ExtendsToWindow ==
    Ready /\ after_extends(Self, stage.before) /\ Supported(settings.fill_after)
    => /\ stage.after # <<>>
       /\ index_max(stage.after) > index_max(stage.before)
       /\ Abs(settings.tmax.num - index_max(stage.after))
            < get_dt(settings.freq)
       /\ \A t \in index(stage.after) :
             t > index_max(stage.before)
             => t - get_dt(settings.freq) \in index(stage.after)

\* C6: when fill_before extends a series on a freq grid to a tmin off that
\* grid, every timestamp it generates is a whole number of freq intervals
\* before the first timestamp of the series.
C6_PhaseAligned ==
    /\ Ready
    /\ before_extends(Self, stage.freq)
    /\ Grid(stage.freq, get_dt(settings.freq))
    /\ (index_min(stage.freq) - settings.tmin.num) % get_dt(settings.freq) # 0
    => \A i \in DOMAIN extend_before(Self, stage.freq) :
          (index_min(stage.freq) - extend_before(Self, stage.freq)[i])
             % get_dt(settings.freq) = 0

\* C7: a step with an unrecognized policy passes its input through with the
\* observations retained and a caution names the policy (exactly one for
\* sample_down).
C7_UnsupportedPolicy ==
    Ready =>
      /\ settings.norm \notin {None, Str("mean")}
         => data = stage.after /\ Named(settings.norm)
      /\ /\ settings.freq # 0
         /\ get_dt(settings.freq) > get_dt(freq_original)
         /\ settings.sample_down \notin
              {Str("mean"), Str("drop"), Str("sum"), Str("min"), Str("max")}
         => /\ stage.freq = loc_valid(series)
            /\ Cardinality({i \in DOMAIN warnings :
                              /\ warnings[i].option = "sample_down"
                              /\ warnings[i].method = settings.sample_down})
                 = 1
      /\ before_extends(Self, stage.freq) /\ ~Supported(settings.fill_before)
         => /\ Named(settings.fill_before)
            /\ \A i \in DOMAIN stage.freq :
                  ValueAt(stage.before, stage.freq[i][1]) = stage.freq[i][2]
      /\ after_extends(Self, stage.before) /\ ~Supported(settings.fill_after)
         => /\ Named(settings.fill_after)
            /\ \A i \in DOMAIN stage.before :
                  ValueAt(stage.after, stage.before[i][1]) = stage.before[i][2]

\* the raw series lies on a constant-frequency grid and has gaps between its
\* first and its last observation; the settings are those of the constructor
GapOnGrid ==
    /\ phase = "ready" /\ nupdates = 0
    /\ Len(series_original) >= 3
    /\ Grid(series_original, freq_original)
    /\ hasnans(series_original)
    /\ ~isnull(series_original[1][2])
    /\ ~isnull(series_original[Len(series_original)][2])

\* the validated series is the raw series with every gap replaced by c
GapsFilledWith(c) ==
    /\ Len(series) = Len(series_original)
    /\ \A i \in DOMAIN series :
          series[i] = IF isnull(series_original[i][2])
                      THEN <<series_original[i][1], c>>
                      ELSE series_original[i]

\* the validated series is the raw series with every gap on the line through
\* the nearest observations before and after it
GapsInterpolated ==
    /\ Len(series) = Len(series_original)
    /\ \A i \in DOMAIN series :
          LET raw == series_original
              p == CHOOSE j \in 1..i : /\ ~isnull(raw[j][2])
                     /\ \A k \in (j + 1)..i : isnull(raw[k][2])
              q == CHOOSE j \in i..Len(raw) : /\ ~isnull(raw[j][2])
                     /\ \A k \in i..(j - 1) : isnull(raw[k][2])
          IN  /\ series[i][1] = raw[i][1]
              /\ IF ~isnull(raw[i][2]) THEN series[i][2] = raw[i][2]
                 ELSE /\ ~isnull(series[i][2])
                      /\ Scale(subtract(series[i][2], raw[p][2]),
                               raw[q][1] - raw[p][1], 1)
                         = Scale(subtract(raw[q][2], raw[p][2]),
                                 raw[i][1] - raw[p][1], 1)

\* C8 as stated: 'interpolate' puts each gap on the line through its
\* neighbours, 'drop' removes the gap rows and keeps the others, and any
\* numeric constant c replaces each gap by c.
C8_GapFillNumeric ==
    GapOnGrid =>
      /\ settings.fill_nan = Str("interpolate") => GapsInterpolated
      /\ settings.fill_nan = Str("drop") => series = dropna(series_original)
      /\ settings.fill_nan.kind \in {"float", "int"}
         => GapsFilledWith(<<settings.fill_nan.num, 1>>)

\* C8 amended: the same, for a constant that is a float; a constant of
\* another numeric type fills nothing.
C8_GapFill ==
    GapOnGrid =>
      /\ settings.fill_nan = Str("interpolate") => GapsInterpolated
      /\ settings.fill_nan = Str("drop") => series = dropna(series_original)
      /\ settings.fill_nan.kind = "float"
         => GapsFilledWith(<<settings.fill_nan.num, 1>>)
      /\ settings.fill_nan.kind = "int"
         => series = series_original

\* C8 witness: a gap of a daily series filled by interpolation
C8_Witness ==
    /\ GapOnGrid
    /\ settings.fill_nan = Str("interpolate")
    /\ freq_original = 2

\* tmin and tmax, where set, lie inside the series the window steps receive
WindowInside ==
    /\ settings.tmin # None \/ settings.tmax # None
    /\ settings.tmin # None => settings.tmin.num >= index_min(stage.freq)
    /\ settings.tmax # None => settings.tmax.num <= index_max(stage.freq)

\* C9: with tmin not before the first and tmax not after the last timestamp,
\* the derived series is the one the same call produces with both unset.
C9_NoOpWindow ==
    Ready /\ WindowInside
    => data = update_series([Self EXCEPT !.data = stage.self],
                            [tmin |-> None, tmax |-> None]).self.data

\* C9 witness: both bounds are set and inside
C9_Witness ==
    /\ Ready /\ WindowInside
    /\ settings.tmin # None /\ settings.tmax # None

\* C10: an extension leaves the index of the series it extends united with
\* the timestamps it generates, and every observation in place.
C10_ExtensionPreserves ==
    Ready =>
      /\ before_extends(Self, stage.freq)
         => Preserved(stage.freq, stage.before,
                      extend_before(Self, stage.freq))
      /\ after_extends(Self, stage.before)
         => Preserved(stage.before, stage.after,
                      extend_after(Self, stage.before))

=============================================================================
